---------------------------- MODULE Spec2Model ----------------------------
(***************************************************************************)
(* Model of PPGCaffeineDetection/Sensor/sensorCode2.py: class              *)
(* SerialPlotter.  Two threads of control: the acquisition worker          *)
(* (_read_serial, run by self._serial_thread) and the driver (the main /   *)
(* GUI thread, which runs start(), stop() and the FuncAnimation callback   *)
(* _update_plots).  The serial device is the environment.                  *)
(*                                                                         *)
(* A line of bytes is a sequence of one-character tokens; "LF", "CR" and   *)
(* "xFF" stand for the bytes 0x0A, 0x0D and 0xFF (0xFF is never valid in   *)
(* UTF-8).  Elapsed time is counted in ticks: one tick passes for every    *)
(* line the device delivers.                                               *)
(***************************************************************************)
EXTENDS Integers, Sequences, FiniteSets, TLC

(***************************************************************************)
(* Bounds of the model.                                                    *)
(***************************************************************************)
\* capacity of the three deques (constructor argument max_len)
max_len == 2
\* number of lines the serial device delivers in a run
MaxLines == 3
\* number of start() calls the driver makes
MaxStarts == 2
\* number of stop() calls the driver makes (stop button, then __main__)
MaxStops == 2

(***************************************************************************)
(* Text helpers: bytes.decode('utf-8'), str.strip, str.split(','), int()   *)
(* and str() as Python computes them.                                      *)
(***************************************************************************)
Whitespace == {" ", "CR", "LF"}

DigitSeq == <<"0", "1", "2", "3", "4", "5", "6", "7", "8", "9">>

DigitChars == {DigitSeq[i] : i \in 1..10}

DigitVal(c) == (CHOOSE i \in 1..10 : DigitSeq[i] = c) - 1

\* bytes.decode('utf-8'): UnicodeDecodeError when a byte is not valid UTF-8
DecodeOk(bytes) == \A i \in 1..Len(bytes) : bytes[i] # "xFF"

RECURSIVE LStrip(_)
LStrip(s) ==
    IF s # <<>> /\ Head(s) \in Whitespace THEN LStrip(Tail(s)) ELSE s

RECURSIVE RStrip(_)
RStrip(s) ==
    IF s # <<>> /\ s[Len(s)] \in Whitespace
    THEN RStrip(SubSeq(s, 1, Len(s) - 1))
    ELSE s

\* str.strip()
Strip(s) == RStrip(LStrip(s))

\* str.split(','): one field more than there are commas
RECURSIVE Split(_)
Split(s) ==
    IF \E i \in 1..Len(s) : s[i] = ","
    THEN LET i == CHOOSE k \in 1..Len(s) :
                      s[k] = "," /\ \A j \in 1..(k - 1) : s[j] # ","
         IN  <<SubSeq(s, 1, i - 1)>> \o Split(SubSeq(s, i + 1, Len(s)))
    ELSE <<s>>

\* the digits of an int() literal: digits, single underscores between them
IsDigits(s) ==
    /\ s # <<>>
    /\ \A i \in 1..Len(s) : s[i] \in DigitChars \cup {"_"}
    /\ s[1] # "_"
    /\ s[Len(s)] # "_"
    /\ \A i \in 1..(Len(s) - 1) : ~(s[i] = "_" /\ s[i + 1] = "_")

RECURSIVE DigitsVal(_, _)
DigitsVal(s, acc) ==
    IF s = <<>> THEN acc
    ELSE IF Head(s) = "_" THEN DigitsVal(Tail(s), acc)
    ELSE DigitsVal(Tail(s), 10 * acc + DigitVal(Head(s)))

\* int(s): surrounding whitespace is ignored, one optional sign, then digits
IntBody(s) ==
    LET t == Strip(s)
    IN  IF t # <<>> /\ Head(t) \in {"+", "-"} THEN Tail(t) ELSE t

IntOk(s) == IsDigits(IntBody(s))

IntVal(s) ==
    LET t == Strip(s)
        m == DigitsVal(IntBody(s), 0)
    IN  IF t # <<>> /\ Head(t) = "-" THEN 0 - m ELSE m

\* mutant of ParseLine: the two fields unpacked in the wrong order
ParseLineSwapped(bytes) ==
    IF ~DecodeOk(bytes) THEN [ok |-> FALSE, v1 |-> 0, v2 |-> 0]
    ELSE LET values == Split(Strip(bytes))
         IN  IF Len(values) # 2 THEN [ok |-> FALSE, v1 |-> 0, v2 |-> 0]
             ELSE IF ~(IntOk(values[1]) /\ IntOk(values[2]))
                  THEN [ok |-> FALSE, v1 |-> 0, v2 |-> 0]
                  ELSE [ok |-> TRUE, v1 |-> IntVal(values[2]),
                        v2 |-> IntVal(values[1])]

\* lines 75-90: decode, strip, split, int(value1), int(value2).
\* ok = FALSE is every `continue` of the loop body.
ParseLine(bytes) ==
    IF ~DecodeOk(bytes) THEN [ok |-> FALSE, v1 |-> 0, v2 |-> 0]
    ELSE LET values == Split(Strip(bytes))
         IN  IF Len(values) # 2 THEN [ok |-> FALSE, v1 |-> 0, v2 |-> 0]
             ELSE IF ~(IntOk(values[1]) /\ IntOk(values[2]))
                  THEN [ok |-> FALSE, v1 |-> 0, v2 |-> 0]
                  ELSE [ok |-> TRUE, v1 |-> IntVal(values[1]),
                        v2 |-> IntVal(values[2])]

RECURSIVE NatToStr(_)
NatToStr(n) ==
    IF n < 10 THEN <<DigitSeq[n + 1]>>
    ELSE NatToStr(n \div 10) \o <<DigitSeq[(n % 10) + 1]>>

\* str(n) of a number
NumToStr(n) == IF n < 0 THEN <<"-">> \o NatToStr(0 - n) ELSE NatToStr(n)

\* mutant of FormatRow: a writer with an empty line terminator
FormatRowNoTerminator(row) ==
    NumToStr(row[1]) \o <<",">> \o NumToStr(row[2]) \o <<",">>
        \o NumToStr(row[3])

\* csv.writer(...).writerow([t, a, b]): fields joined by ',' and ended by
\* the writer's line terminator '\r\n' (the file is opened with newline='')
FormatRow(row) ==
    NumToStr(row[1]) \o <<",">> \o NumToStr(row[2]) \o <<",">>
        \o NumToStr(row[3]) \o <<"CR", "LF">>


(***************************************************************************)
(* The lines the serial device can deliver.                                *)
(***************************************************************************)
LineSet ==
    { <<"1", ",", "2", "LF">>,
      <<"1", ",", "2", "CR", "LF">>,
      <<"+", "1", ",", " ", "2", "LF">>,
      <<"-", "5", ",", "1", "_", "0", "LF">>,
      <<"-", "5", ",", "1", "0", "CR", "LF">>,
      <<"1", ",", "2">>,
      <<"a", "b", "c", ",", "5", "LF">>,
      <<"7", "LF">>,
      <<"1", ",", "2", ",", "3", "LF">>,
      <<"1", ",", "LF">>,
      <<"1", "xFF", ",", "2", "LF">>,
      <<"LF">> }

\* lines 75-90 on each line of LineSet: ParseLine computed once per
\* line and looked up by the worker
ParseTable == [bytes \in LineSet |-> ParseLine(bytes)]

(***************************************************************************)
(* State.                                                                  *)
(***************************************************************************)
VARIABLES
    csv_filename,      \* TRUE iff a csv_filename was given to __init__
    timestamps,        \* self.timestamps  (deque, maxlen = max_len)
    adc1,              \* self.adc1
    adc2,              \* self.adc2
    _last_timestamp,   \* self._last_timestamp
    _last_adc1,        \* self._last_adc1
    _last_adc2,        \* self._last_adc2
    _stop_event,       \* self._stop_event.is_set()
    _animation,        \* self._animation: 0 is None, k the k-th FuncAnimation
    threadStarted,     \* self._serial_thread has been started
    fileOpen,          \* self.csvfile is open
    fileBuf,           \* text written to self.csvfile and not yet flushed
    fileDisk,          \* text of the file on disk
    serOpen,           \* the serial port is open
    now,               \* time.time() - self.time_start, in ticks
    wpc,               \* worker: where _read_serial is
    werr,              \* worker: the exception that ended the thread
    value1,            \* worker local value1
    value2,            \* worker local value2
    serial_byte,       \* worker local serial_byte (<<>>: no line in hand)
    dpc,               \* driver: where the main thread is
    derr,              \* driver: the exception its last call raised
    rlen,              \* _update_plots: the len() read first in a comparison
    xdata1,            \* self._line1 x data
    ydata1,            \* self._line1 y data
    xdata2,            \* self._line2 x data
    ydata2,            \* self._line2 y data
    nStart,            \* number of start() calls made
    nStop,             \* number of stop() calls made
    accepted,          \* history: the records <<t, a, b>> accepted so far
    closeCalls,        \* history: number of self.csvfile.close() calls
    stopReturned,      \* history: a stop() call has returned normally
    stopDuringRead     \* history: stop() set the event during a readline()

histVars == <<timestamps, adc1, adc2, _last_timestamp, _last_adc1, _last_adc2>>

fileVars == <<fileOpen, fileBuf, fileDisk, closeCalls>>

workerVars == <<wpc, werr, value1, value2, serial_byte>>

renderVars == <<rlen, xdata1, ydata1, xdata2, ydata2>>

driverVars == <<dpc, derr, nStart, nStop, stopReturned>>

vars == <<csv_filename, histVars, _stop_event, _animation, threadStarted,
          fileVars, serOpen, now, workerVars, renderVars, driverVars,
          accepted, stopDuringRead>>

\* plot data the renderer has not set in this call (a series it sets is
\* never empty: line 114 returns when a deque is empty)
NoData == <<>>

\* __init__, lines 15-54
Init ==
    /\ csv_filename \in BOOLEAN
    /\ timestamps = <<>>
    /\ adc1 = <<>>
    /\ adc2 = <<>>
    /\ _last_timestamp = 0
    /\ _last_adc1 = 0
    /\ _last_adc2 = 0
    /\ _stop_event = FALSE
    /\ _animation = 0
    /\ threadStarted = FALSE
    /\ fileOpen = csv_filename
    /\ fileBuf = <<>>
    /\ fileDisk = <<>>
    /\ serOpen = TRUE
    /\ now = 0
    /\ wpc = "notStarted"
    /\ werr = "none"
    /\ value1 = 0
    /\ value2 = 0
    /\ serial_byte = <<>>
    /\ dpc = "idle"
    /\ derr = "none"
    /\ rlen = 0
    /\ xdata1 = NoData
    /\ ydata1 = NoData
    /\ xdata2 = NoData
    /\ ydata2 = NoData
    /\ nStart = 0
    /\ nStop = 0
    /\ accepted = <<>>
    /\ closeCalls = 0
    /\ stopReturned = FALSE
    /\ stopDuringRead = FALSE

\* mutant of DequeAppend: a container without maxlen
DequeAppendUnbounded(d, x) == d \o <<x>>

\* deque(maxlen=self.max_len).append(x): the oldest element is dropped
\* when the deque is full
DequeAppend(d, x) ==
    IF Len(d) >= max_len THEN SubSeq(d, 2, Len(d)) \o <<x>> ELSE d \o <<x>>


(***************************************************************************)
(* self.csvfile.close(): flushes what is buffered and closes the handle;   *)
(* closing a closed file does nothing.  k counts the call.                 *)
(***************************************************************************)
CloseFile ==
    /\ closeCalls' = closeCalls + 1
    /\ fileOpen' = FALSE
    /\ fileDisk' = IF fileOpen THEN fileDisk \o fileBuf ELSE fileDisk
    /\ fileBuf' = IF fileOpen THEN <<>> ELSE fileBuf

(***************************************************************************)
(* The driver: start() and stop().                                         *)
(***************************************************************************)
\* mutant of Start: the animation is created before the thread is started
StartAnimationFirst ==
    /\ dpc = "idle"
    /\ nStart < MaxStarts
    /\ nStart' = nStart + 1
    /\ _animation' = nStart + 1
    /\ IF threadStarted
       THEN /\ derr' = "RuntimeError"
            /\ UNCHANGED <<threadStarted, wpc>>
       ELSE /\ derr' = "none"
            /\ threadStarted' = TRUE
            /\ wpc' = "while"
    /\ UNCHANGED <<csv_filename, histVars, _stop_event, fileVars, serOpen,
                   now, werr, value1, value2,
                   serial_byte, renderVars, dpc, nStop,
                   stopReturned, accepted, stopDuringRead>>

\* start(), lines 56-61.  Thread.start() raises RuntimeError when the
\* thread was started before, and line 61 is then not reached.
Start ==
    /\ dpc = "idle"
    /\ nStart < MaxStarts
    /\ nStart' = nStart + 1
    /\ IF threadStarted
       THEN /\ derr' = "RuntimeError"
            /\ UNCHANGED <<threadStarted, wpc, _animation>>
       ELSE /\ derr' = "none"
            /\ threadStarted' = TRUE
            /\ wpc' = "while"
            /\ _animation' = nStart + 1
    /\ UNCHANGED <<csv_filename, histVars, _stop_event, fileVars, serOpen,
                   now, werr, value1, value2,
                   serial_byte, renderVars, dpc, nStop,
                   stopReturned, accepted, stopDuringRead>>

\* mutant of StopSet: stop() closes the file before it joins the thread
StopSetClosesFile ==
    /\ dpc = "idle"
    /\ nStop < MaxStops
    /\ nStop' = nStop + 1
    /\ _stop_event' = TRUE
    /\ stopDuringRead' = (stopDuringRead \/ (wpc = "readline" /\ ~_stop_event))
    /\ derr' = "none"
    /\ dpc' = "join"
    /\ IF csv_filename THEN CloseFile ELSE UNCHANGED fileVars
    /\ UNCHANGED <<csv_filename, histVars, _animation, threadStarted,
                   serOpen, now, workerVars, renderVars, nStart,
                   stopReturned, accepted>>

\* stop(), line 64: self._stop_event.set()
StopSet ==
    /\ dpc = "idle"
    /\ nStop < MaxStops
    /\ nStop' = nStop + 1
    /\ _stop_event' = TRUE
    /\ stopDuringRead' = (stopDuringRead \/ (wpc = "readline" /\ ~_stop_event))
    /\ derr' = "none"
    /\ dpc' = "join"
    /\ UNCHANGED <<csv_filename, histVars, _animation, threadStarted,
                   fileVars, serOpen, now, workerVars, renderVars, nStart,
                   stopReturned, accepted>>

\* mutant of StopJoin: a join that does not wait for the thread to end
StopJoinNoWait ==
    /\ dpc = "join"
    /\ IF threadStarted
       THEN dpc' = "close" /\ derr' = derr
       ELSE dpc' = "idle" /\ derr' = "RuntimeError"
    /\ UNCHANGED <<csv_filename, histVars, _stop_event, _animation,
                   threadStarted, fileVars, serOpen, now, workerVars,
                   renderVars, nStart, nStop, stopReturned, accepted,
                   stopDuringRead>>

\* stop(), line 65: self._serial_thread.join().  RuntimeError when the
\* thread was never started; otherwise it returns once the thread is over.
StopJoin ==
    /\ dpc = "join"
    /\ threadStarted => wpc = "done"
    /\ IF threadStarted
       THEN dpc' = "close" /\ derr' = derr
       ELSE dpc' = "idle" /\ derr' = "RuntimeError"
    /\ UNCHANGED <<csv_filename, histVars, _stop_event, _animation,
                   threadStarted, fileVars, serOpen, now, workerVars,
                   renderVars, nStart, nStop, stopReturned, accepted,
                   stopDuringRead>>

\* stop(), lines 66-67: `if self.csvfile: self.csvfile.close()`.  The
\* attribute csvfile exists only when a csv_filename was given (line 52).
StopClose ==
    /\ dpc = "close"
    /\ dpc' = "idle"
    /\ IF csv_filename
       THEN /\ CloseFile
            /\ stopReturned' = TRUE
            /\ derr' = derr
       ELSE /\ derr' = "AttributeError"
            /\ UNCHANGED <<fileVars, stopReturned>>
    /\ UNCHANGED <<csv_filename, histVars, _stop_event, _animation,
                   threadStarted, serOpen, now, workerVars, renderVars,
                   nStart, nStop, accepted, stopDuringRead>>

(***************************************************************************)
(* The acquisition worker: _read_serial, lines 69-110.                     *)
(***************************************************************************)
\* mutant of WhileTest: a loop that does not test the stop event
WhileTestIgnoresStop ==
    /\ wpc = "while"
    /\ wpc' = "readline"
    /\ UNCHANGED <<csv_filename, histVars, _stop_event, _animation,
                   threadStarted, fileVars, serOpen, now, werr, value1,
                   value2,
                   serial_byte, renderVars, driverVars, accepted,
                   stopDuringRead>>

\* line 71: while not self._stop_event.is_set()
WhileTest ==
    /\ wpc = "while"
    /\ wpc' = IF _stop_event THEN "exit" ELSE "readline"
    /\ UNCHANGED <<csv_filename, histVars, _stop_event, _animation,
                   threadStarted, fileVars, serOpen, now, werr, value1,
                   value2,
                   serial_byte, renderVars, driverVars, accepted,
                   stopDuringRead>>

\* line 74: readline() returns a line of the device
ReadLine ==
    /\ wpc = "readline"
    /\ serOpen
    /\ now < MaxLines
    /\ \E bytes \in LineSet : serial_byte' = bytes
    /\ now' = now + 1
    /\ wpc' = "parse"
    /\ UNCHANGED <<csv_filename, histVars, _stop_event, _animation,
                   threadStarted, fileVars, serOpen, werr, value1, value2,
                   renderVars, driverVars, accepted, stopDuringRead>>

\* mutant of Parse: int(value1) is stored in self._last_adc1 at once,
\* before int(value2) is tried
ParseStoresEarly ==
    /\ wpc = "parse"
    /\ LET r == ParseLine(serial_byte)
           f == Split(Strip(serial_byte))
       IN  IF r.ok
           THEN /\ value1' = r.v1
                /\ value2' = r.v2
                /\ wpc' = "append1"
                /\ _last_adc1' = _last_adc1
           ELSE /\ wpc' = "while"
                /\ UNCHANGED <<value1, value2>>
                /\ _last_adc1' = IF DecodeOk(serial_byte) /\ Len(f) = 2
                                    /\ IntOk(f[1])
                                 THEN IntVal(f[1])
                                 ELSE _last_adc1
    /\ serial_byte' = <<>>
    /\ UNCHANGED <<csv_filename, timestamps, adc1, adc2, _last_timestamp,
                   _last_adc2, _stop_event, _animation, threadStarted,
                   fileVars, serOpen, now, werr, renderVars, driverVars,
                   accepted, stopDuringRead>>

\* lines 75-90: decode, strip, split, int; every `continue` goes back to
\* the loop test.  serial_byte is not read after line 75: the model
\* forgets it here.
Parse ==
    /\ wpc = "parse"
    /\ LET r == ParseTable[serial_byte]
       IN  IF r.ok
           THEN /\ value1' = r.v1
                /\ value2' = r.v2
                /\ wpc' = "append1"
           ELSE /\ wpc' = "while"
                /\ UNCHANGED <<value1, value2>>
    /\ serial_byte' = <<>>
    /\ UNCHANGED <<csv_filename, histVars, _stop_event, _animation,
                   threadStarted, fileVars, serOpen, now, werr, renderVars,
                   driverVars, accepted, stopDuringRead>>

\* line 74: readline() on a port that was closed raises SerialException,
\* which no handler of the loop catches: the thread ends there
ReadFail ==
    /\ wpc = "readline"
    /\ ~serOpen
    /\ wpc' = "done"
    /\ werr' = "SerialException"
    /\ UNCHANGED <<csv_filename, histVars, _stop_event, _animation,
                   threadStarted, fileVars, serOpen, now, value1, value2,
                   serial_byte,
                   renderVars, driverVars, accepted, stopDuringRead>>

\* lines 92-93
Append1 ==
    /\ wpc = "append1"
    /\ _last_adc1' = value1
    /\ adc1' = DequeAppend(adc1, value1)
    /\ wpc' = "append2"
    /\ UNCHANGED <<csv_filename, timestamps, adc2, _last_timestamp,
                   _last_adc2, _stop_event, _animation, threadStarted,
                   fileVars, serOpen, now, werr, value1, value2,
                   serial_byte, renderVars,
                   driverVars, accepted, stopDuringRead>>

\* lines 95-96
Append2 ==
    /\ wpc = "append2"
    /\ _last_adc2' = value2
    /\ adc2' = DequeAppend(adc2, value2)
    /\ wpc' = "append3"
    /\ UNCHANGED <<csv_filename, timestamps, adc1, _last_timestamp,
                   _last_adc1, _stop_event, _animation, threadStarted,
                   fileVars, serOpen, now, werr, value1, value2,
                   serial_byte, renderVars,
                   driverVars, accepted, stopDuringRead>>

\* mutant of Append3: the test of line 102 never lets the row be written
Append3SkipsWrite ==
    /\ wpc = "append3"
    /\ _last_timestamp' = now
    /\ timestamps' = DequeAppend(timestamps, now)
    /\ accepted' = Append(accepted, <<now, _last_adc1, _last_adc2>>)
    /\ wpc' = "while"
    /\ UNCHANGED <<csv_filename, adc1, adc2, _last_adc1, _last_adc2,
                   _stop_event, _animation, threadStarted, fileVars, serOpen,
                   now, werr, value1, value2, serial_byte, renderVars,
                   driverVars, stopDuringRead>>

\* lines 98-99 and the test of line 102
Append3 ==
    /\ wpc = "append3"
    /\ _last_timestamp' = now
    /\ timestamps' = DequeAppend(timestamps, now)
    /\ accepted' = Append(accepted, <<now, _last_adc1, _last_adc2>>)
    /\ wpc' = IF csv_filename THEN "writerow" ELSE "while"
    /\ UNCHANGED <<csv_filename, adc1, adc2, _last_adc1, _last_adc2,
                   _stop_event, _animation, threadStarted, fileVars, serOpen,
                   now, werr, value1, value2,
                   serial_byte, renderVars, driverVars,
                   stopDuringRead>>

\* mutant of CsvRow: the two channels in the wrong columns
CsvRowSwapped == <<_last_timestamp, _last_adc2, _last_adc1>>

\* the row line 103 writes
CsvRow == <<_last_timestamp, _last_adc1, _last_adc2>>

\* line 103: self.csv_writer.writerow(...); ValueError on a closed file
WriteRow ==
    /\ wpc = "writerow"
    /\ IF fileOpen
       THEN /\ fileBuf' = fileBuf \o FormatRow(CsvRow)
            /\ wpc' = "flush"
            /\ werr' = werr
       ELSE /\ wpc' = "done"
            /\ werr' = "ValueError"
            /\ fileBuf' = fileBuf
    /\ UNCHANGED <<csv_filename, histVars, _stop_event, _animation,
                   threadStarted, fileOpen, fileDisk, closeCalls, serOpen,
                   now, value1, value2,
                   serial_byte, renderVars, driverVars, accepted,
                   stopDuringRead>>

\* mutant of Flush: the row stays in the buffer until the file is closed
FlushLater ==
    /\ wpc = "flush"
    /\ IF fileOpen
       THEN /\ wpc' = "while"
            /\ werr' = werr
       ELSE /\ wpc' = "done"
            /\ werr' = "ValueError"
    /\ UNCHANGED <<csv_filename, histVars, _stop_event, _animation,
                   threadStarted, fileVars, serOpen, now, value1, value2,
                   serial_byte, renderVars, driverVars, accepted,
                   stopDuringRead>>

\* line 104: self.csvfile.flush(); ValueError on a closed file
Flush ==
    /\ wpc = "flush"
    /\ IF fileOpen
       THEN /\ fileDisk' = fileDisk \o fileBuf
            /\ fileBuf' = <<>>
            /\ wpc' = "while"
            /\ werr' = werr
       ELSE /\ wpc' = "done"
            /\ werr' = "ValueError"
            /\ UNCHANGED <<fileDisk, fileBuf>>
    /\ UNCHANGED <<csv_filename, histVars, _stop_event, _animation,
                   threadStarted, fileOpen, closeCalls, serOpen, now, value1,
                   value2,
                   serial_byte, renderVars, driverVars, accepted,
                   stopDuringRead>>

\* lines 106-110: buffer is always empty; `if self.csvfile:` raises
\* AttributeError when no csv_filename was given, else the file is closed
Exit ==
    /\ wpc = "exit"
    /\ wpc' = "done"
    /\ IF csv_filename
       THEN CloseFile /\ werr' = werr
       ELSE werr' = "AttributeError" /\ UNCHANGED fileVars
    /\ UNCHANGED <<csv_filename, histVars, _stop_event, _animation,
                   threadStarted, serOpen, now, value1, value2,
                   serial_byte, renderVars,
                   driverVars, accepted, stopDuringRead>>

(***************************************************************************)
(* The serial device: the port is closed from outside the program          *)
(* (unplugged, or closed by another party).  self.ser is read by           *)
(* readline() alone, so a closure at any other moment has its effect at    *)
(* the worker's next readline(): it is taken to happen then.               *)
(***************************************************************************)
SourceClosed ==
    /\ serOpen
    /\ wpc = "readline"
    /\ serOpen' = FALSE
    /\ UNCHANGED <<csv_filename, histVars, _stop_event, _animation,
                   threadStarted, fileVars, now, workerVars, renderVars,
                   driverVars, accepted, stopDuringRead>>


(***************************************************************************)
(* The renderer: _update_plots, lines 112-131, called by the animation on  *)
(* the driver's thread.  Each read of a deque is a step of its own: the    *)
(* worker runs between them.                                               *)
(***************************************************************************)
notRenderVars == <<csv_filename, histVars, _stop_event, _animation,
                   threadStarted, fileVars, serOpen, now, workerVars, nStart,
                   nStop, derr, stopReturned, accepted, stopDuringRead>>

\* line 114, first operand: `not self.adc1`
RenderCheck1 ==
    /\ dpc = "idle"
    /\ _animation # 0
    /\ dpc' = IF adc1 = <<>> THEN "idle" ELSE "check2"
    /\ UNCHANGED <<notRenderVars, renderVars>>

\* line 114, second operand: `not self.adc2`
RenderCheck2 ==
    /\ dpc = "check2"
    /\ dpc' = IF adc2 = <<>> THEN "idle" ELSE "check3"
    /\ UNCHANGED <<notRenderVars, renderVars>>

\* line 114, third operand, left side: len(self.adc1)
RenderCheck3 ==
    /\ dpc = "check3"
    /\ rlen' = Len(adc1)
    /\ dpc' = "check3b"
    /\ UNCHANGED <<notRenderVars, xdata1, ydata1, xdata2, ydata2>>

\* line 114, third operand: ... != len(self.timestamps)
RenderCheck3b ==
    /\ dpc = "check3b"
    /\ rlen' = 0
    /\ dpc' = IF rlen # Len(timestamps) THEN "idle" ELSE "check4"
    /\ UNCHANGED <<notRenderVars, xdata1, ydata1, xdata2, ydata2>>

\* line 114, fourth operand, left side: len(self.adc2)
RenderCheck4 ==
    /\ dpc = "check4"
    /\ rlen' = Len(adc2)
    /\ dpc' = "check4b"
    /\ UNCHANGED <<notRenderVars, xdata1, ydata1, xdata2, ydata2>>

\* line 114, fourth operand: ... != len(self.timestamps)
RenderCheck4b ==
    /\ dpc = "check4b"
    /\ rlen' = 0
    /\ dpc' = IF rlen # Len(timestamps) THEN "idle" ELSE "set1x"
    /\ UNCHANGED <<notRenderVars, xdata1, ydata1, xdata2, ydata2>>

\* line 118: self._line1.set_xdata(self.timestamps) copies the deque
RenderSet1x ==
    /\ dpc = "set1x"
    /\ xdata1' = timestamps
    /\ dpc' = "set1y"
    /\ UNCHANGED <<notRenderVars, rlen, ydata1, xdata2, ydata2>>

\* line 119: self._line1.set_ydata(self.adc1)
RenderSet1y ==
    /\ dpc = "set1y"
    /\ ydata1' = adc1
    /\ dpc' = "set2x"
    /\ UNCHANGED <<notRenderVars, rlen, xdata1, xdata2, ydata2>>

\* line 120: self._line2.set_xdata(self.timestamps)
RenderSet2x ==
    /\ dpc = "set2x"
    /\ xdata2' = timestamps
    /\ dpc' = "set2y"
    /\ UNCHANGED <<notRenderVars, rlen, xdata1, ydata1, ydata2>>

\* line 121: self._line2.set_ydata(self.adc2); the two lines now hold the
\* series that lines 122-131 and the canvas draw
RenderSet2y ==
    /\ dpc = "set2y"
    /\ ydata2' = adc2
    /\ dpc' = "drawn"
    /\ UNCHANGED <<notRenderVars, rlen, xdata1, ydata1, xdata2>>

\* lines 122-131: rescale, colour, return; the frame is drawn and the
\* model forgets its series
RenderReturn ==
    /\ dpc = "drawn"
    /\ dpc' = "idle"
    /\ xdata1' = NoData
    /\ ydata1' = NoData
    /\ xdata2' = NoData
    /\ ydata2' = NoData
    /\ UNCHANGED <<notRenderVars, rlen>>

(***************************************************************************)
(* Specifications.                                                         *)
(***************************************************************************)
Worker ==
    \/ WhileTest
    \/ ReadLine
    \/ Parse
    \/ ReadFail
    \/ Append1
    \/ Append2
    \/ Append3
    \/ WriteRow
    \/ Flush
    \/ Exit

Render ==
    \/ RenderCheck1
    \/ RenderCheck2
    \/ RenderCheck3
    \/ RenderCheck3b
    \/ RenderCheck4
    \/ RenderCheck4b
    \/ RenderSet1x
    \/ RenderSet1y
    \/ RenderSet2x
    \/ RenderSet2y
    \/ RenderReturn

Next ==
    \/ Start
    \/ StopSet
    \/ StopJoin
    \/ StopClose
    \/ Worker
    \/ Render
    \/ SourceClosed

Spec == Init /\ [][Next]_vars


\* the worker's own steps and the steps of a stop() under way are taken
\* by the thread scheduler; a read of a closed port raises at once.  No
\* fairness for the device delivering a line or for the driver's calls.
WorkerRuns ==
    \/ WhileTest
    \/ Parse
    \/ ReadFail
    \/ Append1
    \/ Append2
    \/ Append3
    \/ WriteRow
    \/ Flush
    \/ Exit

StopRuns == StopJoin \/ StopClose

LiveSpec == Spec /\ WF_vars(WorkerRuns) /\ WF_vars(StopRuns)

(***************************************************************************)
(* Properties.                                                             *)
(***************************************************************************)
Min(a, b) == IF a < b THEN a ELSE b

\* the last n elements of s
LastN(s, n) == SubSeq(s, Len(s) - n + 1, Len(s))

\* column k of a sequence of records
Column(recs, k) == [i \in 1..Len(recs) |-> recs[i][k]]

RECURSIVE SplitLinesFrom(_, _, _)
SplitLinesFrom(s, first, i) ==
    IF i > Len(s)
    THEN IF first > Len(s) THEN <<>> ELSE <<SubSeq(s, first, Len(s))>>
    ELSE IF s[i] = "LF"
         THEN <<SubSeq(s, first, i)>> \o SplitLinesFrom(s, i + 1, i + 1)
         ELSE SplitLinesFrom(s, first, i + 1)

\* the lines of a text, each with its newline; a last line without one
\* is kept as it is
SplitLines(s) == SplitLinesFrom(s, 1, 1)

\* one line of the file read back: strip, split on ',', int per field
ReadRow(line) ==
    LET f == Split(Strip(line))
    IN  IF Len(f) = 3 /\ \A i \in 1..3 : IntOk(f[i])
        THEN <<IntVal(f[1]), IntVal(f[2]), IntVal(f[3])>>
        ELSE <<"malformed", line>>

\* the persisted text read back: split on the newline, then each line
ReadBack(text) ==
    LET ls == SplitLines(text)
    IN  [i \in 1..Len(ls) |->
            IF ls[i][Len(ls[i])] = "LF" THEN ReadRow(ls[i])
            ELSE <<"partial", ls[i]>>]

\* the worker is between two iterations of its loop, or not running
BetweenIterations ==
    wpc \in {"notStarted", "while", "readline", "parse", "exit", "done"}

\* a stop() call is under way
Stopping == dpc \in {"join", "close"}

\* C1: the series _update_plots hands to the two lines are index-aligned:
\* at every index they share, the time, the channel-a value and the
\* channel-b value are those of one accepted record.
C1_NoTornReads ==
    dpc = "drawn" =>
        \A i \in 1..Min(Min(Len(xdata1), Len(ydata1)),
                        Min(Len(xdata2), Len(ydata2))) :
            \E k \in 1..Len(accepted) :
                /\ accepted[k][1] = xdata1[i]
                /\ accepted[k][1] = xdata2[i]
                /\ accepted[k][2] = ydata1[i]
                /\ accepted[k][3] = ydata2[i]

\* C2: the x series and the y series _update_plots hands to each line
\* have equal lengths.
C2_EqualLengths ==
    dpc = "drawn" =>
        /\ Len(xdata1) = Len(ydata1)
        /\ Len(xdata2) = Len(ydata2)
        /\ Len(xdata1) = Len(xdata2)

\* C3: between iterations of the worker, the three deques hold the last
\* min(N, max_len) of the N accepted records, in arrival order.
C3_RingBuffer ==
    BetweenIterations =>
        LET kept == LastN(accepted, Min(Len(accepted), max_len))
        IN  /\ timestamps = Column(kept, 1)
            /\ adc1 = Column(kept, 2)
            /\ adc2 = Column(kept, 3)

C3_Witness ==
    /\ wpc = "while"
    /\ Len(accepted) > max_len
    /\ Len(timestamps) = max_len
    /\ adc1[1] # adc1[max_len]

\* C4: with a csv_filename, between iterations of the worker the file read
\* back is the sequence of accepted records, one row each, in order.
C4_FileRoundTrip ==
    (csv_filename /\ BetweenIterations) => ReadBack(fileDisk) = accepted

C4_Witness ==
    /\ csv_filename
    /\ wpc = "done"
    /\ Len(accepted) >= 2
    /\ accepted[1][2] < 0
    /\ accepted[1] # accepted[2]
    /\ Len(ReadBack(fileDisk)) = Len(accepted)

\* C5: in every state the file on disk read back is a prefix of the
\* accepted records: whole rows only, none missing inside, none altered.
C5_FilePrefix ==
    LET rows == ReadBack(fileDisk)
    IN  /\ Len(rows) <= Len(accepted)
        /\ rows = SubSeq(accepted, 1, Len(rows))

C5_Witness ==
    /\ werr = "SerialException"
    /\ Len(accepted) >= 2
    /\ Len(ReadBack(fileDisk)) = Len(accepted)
    /\ Stopping

\* C6: a start() on a session already started raises (RuntimeError of
\* Thread.start) and changes nothing: same worker, history, file, stop
\* signal and animation.
C6_SecondStartFails ==
    [][(nStart' # nStart /\ threadStarted) =>
          /\ derr' = "RuntimeError"
          /\ UNCHANGED <<workerVars, histVars, fileVars, _animation,
                         _stop_event, threadStarted, accepted, dpc>>]_vars

C6_Witness ==
    /\ nStart = 2
    /\ derr = "RuntimeError"
    /\ wpc = "append2"
    /\ _animation = 1

\* C7: a stop() made before start(), or after a stop() has returned, does
\* not set the stop signal, does not close the file, and ends with an
\* error.
C7_StopNotRunningIsNoop ==
    [][((~threadStarted \/ stopReturned) /\ (nStop' # nStop \/ Stopping)) =>
          /\ _stop_event' = _stop_event
          /\ closeCalls' = closeCalls
          /\ (dpc' = "idle" => derr' # "none")]_vars

\* C8: once join() has returned in stop() the worker thread is over, and
\* when stop() has returned the file is closed as well.
C8_StopAfterWorkerExit ==
    /\ (dpc = "close" \/ stopReturned) => wpc = "done"
    /\ stopReturned => ~fileOpen

C8_Witness ==
    /\ stopReturned
    /\ accepted # <<>>
    /\ werr = "none"

\* C9: the file's close() is called exactly once in a run: never twice,
\* and once when the worker is over and stop() has returned.
C9_ClosedExactlyOnce ==
    /\ closeCalls <= 1
    /\ (wpc = "done" /\ stopReturned) => closeCalls = 1

\* C10: when stop() set the signal while the worker was in readline() and
\* that read has come back (a line, or an error of the closed port), the
\* worker starts no other read, its thread ends and stop() ends (it
\* returns, when a csv_filename was given).
C10_ShutdownLiveness ==
    /\ [][(stopDuringRead /\ wpc # "readline") => wpc' # "readline"]_vars
    /\ (stopDuringRead /\ wpc # "readline") ~>
           (wpc = "done" /\ ~Stopping /\ (csv_filename => stopReturned))

C10_Witness ==
    /\ stopDuringRead
    /\ wpc = "done"
    /\ dpc = "idle"
    /\ now > 0


(***************************************************************************)
(* What the specification calls a valid line: "a,b" with a and b base-10   *)
(* integers (an optional '-' and digits), then only line-ending            *)
(* whitespace.  Stated on the bytes, without the parser's operators.       *)
(***************************************************************************)
PlainInt(s) ==
    LET d == IF s # <<>> /\ s[1] = "-" THEN SubSeq(s, 2, Len(s)) ELSE s
    IN  d # <<>> /\ \A i \in 1..Len(d) : d[i] \in DigitChars

RECURSIVE PlainNat(_)
PlainNat(d) ==
    IF d = <<>> THEN 0
    ELSE 10 * PlainNat(SubSeq(d, 1, Len(d) - 1)) + DigitVal(d[Len(d)])

PlainIntVal(s) ==
    IF s[1] = "-" THEN 0 - PlainNat(SubSeq(s, 2, Len(s))) ELSE PlainNat(s)

\* the places <<i, j>> of the comma and of the last character of b
ValidForms(bytes) ==
    {f \in (1..Len(bytes)) \X (1..Len(bytes)) :
        /\ bytes[f[1]] = ","
        /\ f[1] < f[2]
        /\ PlainInt(SubSeq(bytes, 1, f[1] - 1))
        /\ PlainInt(SubSeq(bytes, f[1] + 1, f[2]))
        /\ \A k \in (f[2] + 1)..Len(bytes) : bytes[k] \in {"CR", "LF"}}

ValidLine(bytes) == ValidForms(bytes) # {}

ValidA(bytes) ==
    LET f == CHOOSE g \in ValidForms(bytes) : TRUE
    IN  PlainIntVal(SubSeq(bytes, 1, f[1] - 1))

ValidB(bytes) ==
    LET f == CHOOSE g \in ValidForms(bytes) : TRUE
    IN  PlainIntVal(SubSeq(bytes, f[1] + 1, f[2]))

\* the worker is inside the part of an iteration that stores a record
Storing == wpc \in {"append1", "append2", "append3", "writerow", "flush"}

\* C11: a valid line "a,b" is accepted with value1 = a and value2 = b; the
\* values are kept through the iteration; the record log grows only by
\* the one record <<now, a, b>>; and when the iteration ends that record
\* is the newest of the three deques and, with a csv_filename, the last
\* row of the file.
C11_ValidLineGivesRecord ==
    /\ [][(wpc = "parse" /\ wpc' # "parse" /\ ValidLine(serial_byte)) =>
             /\ wpc' = "append1"
             /\ value1' = ValidA(serial_byte)
             /\ value2' = ValidB(serial_byte)]_vars
    /\ [][Storing => (value1' = value1 /\ value2' = value2)]_vars
    /\ [][accepted' # accepted =>
             /\ wpc = "append3"
             /\ accepted' = Append(accepted, <<now, value1, value2>>)]_vars
    /\ [][(Storing /\ wpc' = "while") =>
             /\ Len(accepted') =
                    Len(accepted) + (IF wpc = "append3" THEN 1 ELSE 0)
             /\ timestamps'[Len(timestamps')] = now
             /\ adc1'[Len(adc1')] = value1
             /\ adc2'[Len(adc2')] = value2
             /\ accepted'[Len(accepted')] = <<now, value1, value2>>
             /\ csv_filename => ReadBack(fileDisk') = accepted']_vars

\* three lines read: a valid one, a rejected one, a valid one ended by
\* CR LF; two records
C11_Witness ==
    /\ wpc = "while"
    /\ now = 3
    /\ csv_filename
    /\ accepted = <<<<1, 1, 2>>, <<3, -5, 10>>>>
    /\ ReadBack(fileDisk) = accepted
    /\ adc1 = <<1, -5>>
    /\ adc2 = <<2, 10>>


(***************************************************************************)
(* The lines the specification has rejected: bytes that are not UTF-8, a   *)
(* number of fields other than 2, or a field int() does not take.          *)
(***************************************************************************)
Commas(bytes) == {i \in 1..Len(bytes) : bytes[i] = ","}

RejectedLine(bytes) ==
    \/ \E i \in 1..Len(bytes) : bytes[i] = "xFF"
    \/ Cardinality(Commas(bytes)) # 1
    \/ LET i == CHOOSE k \in Commas(bytes) : TRUE
       IN  \/ ~IntOk(SubSeq(bytes, 1, i - 1))
           \/ ~IntOk(SubSeq(bytes, i + 1, Len(bytes)))

\* C12: the step that parses a rejected line changes neither the deques,
\* the last-value fields, the file nor the record log, raises nothing, and
\* takes the worker back to the loop test.
C12_RejectedLineChangesNothing ==
    [][(wpc = "parse" /\ wpc' # "parse" /\ RejectedLine(serial_byte)) =>
          /\ wpc' = "while"
          /\ werr' = werr
          /\ UNCHANGED <<histVars, fileVars, accepted>>]_vars

\* the second line was rejected after a first record, and a third line
\* is being read
C12_Witness ==
    /\ wpc = "readline"
    /\ now = 2
    /\ accepted = <<<<1, -5, 10>>>>
    /\ _last_adc1 = -5
    /\ werr = "none"


\* C13: once the stop event is set, nothing more is appended to the deques
\* or the record log and nothing more is written to the file; a line that
\* readline() returns after the event was set is not accepted.
C13_NothingStoredAfterStop ==
    [][_stop_event =>
          /\ UNCHANGED <<timestamps, adc1, adc2, accepted>>
          /\ fileDisk' \o fileBuf' = fileDisk \o fileBuf
          /\ (wpc = "parse" => wpc' # "append1")]_vars

\* C14: after a failed read the worker reads no more, the file is closed
\* by the worker's way out of the loop, and the thread is over.
C14_ReadErrorDrains ==
    werr = "SerialException" =>
        /\ wpc = "done"
        /\ csv_filename => (~fileOpen /\ closeCalls >= 1)


\* C15: nothing stays buffered outside the flush of line 104, so whenever
\* the worker reads, all rows written are on disk; a row is written only
\* after its record is in the three deques, and flushed before the next
\* loop test.
C15_PerRecordDurability ==
    /\ wpc # "flush" => fileBuf = <<>>
    /\ (csv_filename /\ wpc \in {"readline", "parse"}) =>
           ReadBack(fileDisk) = accepted
    /\ wpc \in {"writerow", "flush"} =>
           /\ timestamps[Len(timestamps)] = _last_timestamp
           /\ adc1[Len(adc1)] = _last_adc1
           /\ adc2[Len(adc2)] = _last_adc2
           /\ accepted[Len(accepted)] = CsvRow
           /\ ReadBack(fileDisk) = SubSeq(accepted, 1, Len(accepted) - 1)
    /\ wpc = "flush" => fileBuf = FormatRow(accepted[Len(accepted)])

C15_Witness ==
    /\ csv_filename
    /\ wpc = "readline"
    /\ Len(accepted) = 2
    /\ fileBuf = <<>>
    /\ ReadBack(fileDisk) = accepted
    /\ fileOpen

\* C16: when the worker's thread is over, and when stop() has returned,
\* the serial port has been closed.
C16_SourceReleased ==
    (wpc = "done" \/ stopReturned) => ~serOpen

\* C17: without a csv_filename no file is opened, written or closed, and
\* neither the worker nor stop() raises for the missing file.
C17_NoSinkNoError ==
    ~csv_filename =>
        /\ ~fileOpen /\ closeCalls = 0
        /\ fileBuf = <<>> /\ fileDisk = <<>>
        /\ werr # "AttributeError"
        /\ derr # "AttributeError"

\* C18: the worker never writes to or flushes a closed file: while it can
\* still write the file is open and no close() has been called.
C18_NoWriteAfterClose ==
    /\ werr # "ValueError"
    /\ wpc \in {"writerow", "flush"} => fileOpen
    /\ closeCalls > 0 => wpc = "done"
    /\ (csv_filename /\ wpc # "done") => fileOpen

C18_Witness ==
    /\ closeCalls = 3
    /\ nStop = 2
    /\ Len(accepted) >= 2
    /\ ReadBack(fileDisk) = accepted
    /\ werr = "none"

\* C19: with a csv_filename the rows written to the file are at most the
\* records in the log and at least all but the newest; and while the
\* worker reads, the deques are the last min(max_len, n) of the n rows.
C19_FileLagsHistory ==
    csv_filename =>
        LET rows == ReadBack(fileDisk \o fileBuf)
            n == Len(rows)
            kept == LastN(rows, Min(max_len, n))
        IN  /\ n <= Len(accepted)
            /\ Len(accepted) <= n + 1
            /\ wpc = "readline" =>
                  /\ timestamps = Column(kept, 1)
                  /\ adc1 = Column(kept, 2)
                  /\ adc2 = Column(kept, 3)

C19_Witness ==
    /\ csv_filename
    /\ wpc = "readline"
    /\ Len(ReadBack(fileDisk)) = max_len + 1
    /\ Len(timestamps) = max_len
    /\ adc1[1] # adc1[max_len]

=============================================================================
